---- MODULE Spec2Model ----
(***************************************************************************)
(* Model of the SEC DW downloader pipeline (src/sec-dw-downloader.js):     *)
(* the progress ledger (ProgressTracker), the page cache (CacheManager),   *)
(* the download worker (downloadWarrant) and the batch scheduler           *)
(* (processDownloads) driven by main, over several runs of the program     *)
(* against the same download directory, with the process being killed at   *)
(* any point.                                                              *)
(*                                                                         *)
(* Durable state (survives the process): progressFile, cache, files.       *)
(* Volatile state (lost when the process ends): everything else.           *)
(* The functions and the tools beside the pipeline are applied on their    *)
(* own, each under a specification of its own.                             *)
(*                                                                         *)
(* Specifications: Spec (any runs, killed anywhere), SpecResume (same      *)
(* config, killed while waiting), SpecTwice (same config, uninterrupted),  *)
(* SpecEmpty (SpecTwice with a site that may send empty bodies), SpecRetry *)
(* (one fetchWithRetry call), SpecLedger (a ProgressTracker on its own),   *)
(* SpecPages (SpecTwice with any listing page), SpecDisk (SpecTwice on a   *)
(* disk that may refuse a write), SpecCache (a CacheManager on its own),   *)
(* SpecFilename (the name and place of one terms file), SpecGenerator (the *)
(* identifier filter of src/sec-dw-link-generator.js), SpecPacing (the     *)
(* head of one downloadWarrant call), SpecListing (extractTransIDs over a  *)
(* listing table), SpecSummary (displaySummary over a results array),      *)
(* SpecSchedule (one run that is never interrupted, fairly scheduled),     *)
(* SpecMatcher (runColumnMatcher of src/column-matcher.js over a sheet).   *)
(***************************************************************************)
EXTENDS Integers, Sequences, FiniteSets, TLC

VARIABLES
    progressFile,         \* content of CONFIG.progressFile on disk
    cache,                \* cache directory: key -> stored page body
    files,                \* downloaded files present in CONFIG.downloadDir
    pc,                   \* position of main()
    range,                \* CONFIG.dateFrom / CONFIG.dateTo of the run
    concurrentDownloads,  \* CONFIG.concurrentDownloads of the run
    data,                 \* ProgressTracker.data (in memory)
    allTransIDs,          \* result of extractTransIDs
    transIDs,             \* argument of processDownloads (pendingTransIDs)
    i,                    \* loop variable of processDownloads
    w,                    \* one downloadWarrant invocation per entry of transIDs
    k,                    \* position of batchResults.forEach
    results,              \* results array of processDownloads
    runs,                 \* number of runs started so far
    call,                 \* the last ProgressTracker method called on its own
    req,                  \* one fetchWithRetry call
    probe,                \* the last CacheManager method called on its own
    dl,                   \* the naming and placing of one downloaded file
    gen,                  \* the row filter of the link generator
    fn                    \* one function of the program applied on its own

durable  == <<progressFile, cache, files>>
volatile == <<pc, range, concurrentDownloads, data, allTransIDs, transIDs, i, w, k, results>>
vars     == <<progressFile, cache, files, pc, range, concurrentDownloads, data,
              allTransIDs, transIDs, i, w, k, results, runs, call, req, probe, dl, gen, fn>>
\* state outside the pipeline: the pipeline's steps leave it alone
aux      == <<call, req, probe, dl, gen, fn>>
pipeline == <<durable, volatile, runs>>

----------------------------------------------------------------------------
(* Bounds of the model *)

MaxRuns == 2
MaxConcurrent == 2
\* CacheManager on its own: the longest key and the most set calls
MaxKeyLen == 2
MaxSets == 1
MaxHeader == 5
MaxRows == 3
MaxResults == 11
\* the largest retry count of a fetchWithRetry call
MaxRetries == 4
\* ProgressTracker on its own: the most entries of completed and of failed, and
\* the longest argument of setPending
MaxEntries == 2
MaxListing == 3

(* The remote site: item IDs, date ranges and the listing page of each range *)

Ranges == {"r1", "r2"}
\* the speed settings: one download at a time, or MaxConcurrent in parallel
ConcurrencyLevels == {1, MaxConcurrent}

ServerListing(r) == IF r = "r1" THEN <<"1", "2", "3">> ELSE <<"3", "2">>

\* a row of the listing table: whether its last cell has a link, and the
\* digits after TransID= in the link's href ("" when the href has none)
Row(transID) == [link |-> TRUE, transID |-> transID]
NoLinkRow    == [link |-> FALSE, transID |-> ""]
NoMatchRow   == [link |-> TRUE, transID |-> ""]
RowsOf(ids)  == [n \in 1..Len(ids) |-> Row(ids[n])]

\* a page body: the rows of its table and whether it carries the terms row;
\* empty stands for the empty string
ListingBody(r) == [empty |-> FALSE, rows |-> RowsOf(ServerListing(r)), terms |-> FALSE]
DetailBody(t)  == [empty |-> FALSE, rows |-> <<>>, terms |-> t]
DetailBodies   == {DetailBody(TRUE), DetailBody(FALSE)}
\* a response with an empty body
EmptyBody      == [empty |-> TRUE, rows |-> <<>>, terms |-> FALSE]

TermsNotFound == "Terms file not found"
FetchError    == "fetch error"
WriteError    == "write error"

\* the loop of extractTransIDs over $('table tbody tr'): the TransID of every
\* row whose last cell links to one, in page order
RECURSIVE RowIDs(_)
RowIDs(rows) ==
    IF rows = <<>> THEN <<>>
    ELSE (IF Head(rows).link /\ Head(rows).transID # "" THEN <<Head(rows).transID>>
          ELSE <<>>) \o RowIDs(Tail(rows))
ParseListing(html) == RowIDs(html.rows)

----------------------------------------------------------------------------
(* ProgressTracker *)

EmptyData == [completed |-> <<>>, failed |-> <<>>, pending |-> <<>>]

\* the progress file: absent, or the text written by save()
NoFile == [exists |-> FALSE, json |-> FALSE, value |-> EmptyData]

\* JSON.stringify(this.data, null, 2) / JSON.parse, which throws on other text
Stringify(d) == [exists |-> TRUE, json |-> TRUE, value |-> d]
Parse(file) == IF file.json THEN [ok |-> TRUE, value |-> file.value]
                            ELSE [ok |-> FALSE, value |-> EmptyData]

Load(file) ==
    IF file.exists
    THEN IF Parse(file).ok THEN Parse(file).value ELSE EmptyData
    ELSE EmptyData

\* faulty variant: the write is buffered, the file keeps its old content
writeDeferred(file, text) == file

\* fs.writeFileSync(this.filepath, text): the file holds text when it returns
writeFileSync(file, text) == text

\* what save() leaves in the progress file
Save(d) == Stringify(d)

\* text that JSON.parse rejects, and the JSON text null
NotJson == [exists |-> TRUE, json |-> FALSE, value |-> EmptyData]
JsonNull == [null |-> TRUE]
\* this.data is an object: reading a property of it does not throw a TypeError
IsObject(d) == d # JsonNull

\* faulty variant: an item counts as completed when it is in the failed list as well
isCompletedOrFailed(d, transID) ==
    \/ \E n \in 1..Len(d.completed) : d.completed[n].transID = transID
    \/ \E n \in 1..Len(d.failed) : d.failed[n].transID = transID

isCompleted(d, transID) ==
    \E n \in 1..Len(d.completed) : d.completed[n].transID = transID

\* faulty variant: only the first occurrence of the ID leaves pending
RECURSIVE RemoveFirst(_, _)
RemoveFirst(s, x) ==
    IF s = <<>> THEN <<>>
    ELSE IF Head(s) = x THEN Tail(s) ELSE <<Head(s)>> \o RemoveFirst(Tail(s), x)
markCompletedFirstOccurrence(d, result) ==
    [d EXCEPT !.completed = Append(@, result),
              !.pending = RemoveFirst(@, result.transID)]

markCompleted(d, result) ==
    [d EXCEPT !.completed = Append(@, result),
              !.pending = SelectSeq(@, LAMBDA id : id # result.transID)]

\* faulty variant: the item stays pending
markFailedStillPending(d, result) == [d EXCEPT !.failed = Append(@, result)]

\* faulty variant: the entry is put in front of the failed list
markFailedInFront(d, result) ==
    [d EXCEPT !.failed = <<result>> \o @,
              !.pending = SelectSeq(@, LAMBDA id : id # result.transID)]

markFailed(d, result) ==
    [d EXCEPT !.failed = Append(@, result),
              !.pending = SelectSeq(@, LAMBDA id : id # result.transID)]

\* faulty variant: the failed list is reset
setPendingClearsFailed(d, ids) ==
    [d EXCEPT !.pending = SelectSeq(ids, LAMBDA id : ~isCompleted(d, id)),
              !.failed = <<>>]

\* faulty variant: completed items are not filtered out
setPendingAll(d, ids) == [d EXCEPT !.pending = ids]

\* faulty variant: failed items are excluded from pending like completed ones
setPendingSkipFailed(d, ids) ==
    [d EXCEPT !.pending = SelectSeq(ids, LAMBDA id : ~isCompletedOrFailed(d, id))]

setPending(d, ids) ==
    [d EXCEPT !.pending = SelectSeq(ids, LAMBDA id : ~isCompleted(d, id))]

getPending(d) == d.pending

getStats(d) == [completed |-> Len(d.completed), failed |-> Len(d.failed),
                pending |-> Len(d.pending)]

----------------------------------------------------------------------------
(* CacheManager *)

ListingKey(r) == <<"listing", r>>
DetailKey(transID) == <<"detail", transID>>

CacheHas(c, key) == key \in DOMAIN c

\* !html for html = cache.get(key): null when absent, '' when stored empty
NoHtml(c, key) == IF CacheHas(c, key) THEN c[key].empty ELSE TRUE

CacheSet(c, key, body) ==
    [x \in DOMAIN c \cup {key} |-> IF x = key THEN body ELSE c[x]]

\* the characters of a cache key: a letter or digit, and two other characters
KeyChars == {"a", "/", "_"}
IsAlnum(ch) == ch = "a"

\* faulty variant: the key is used as the file name as it is
getCachePathRaw(key) == key \o <<".html">>

\* key.replace(/[^a-zA-Z0-9]/g, '_') + '.html' in the cache directory
getCachePath(key) ==
    [n \in 1..Len(key) |-> IF IsAlnum(key[n]) THEN key[n] ELSE "_"] \o <<".html">>

\* what get returns for a key without cache file
null == [null |-> TRUE]

\* has, get and set of CacheManager, the cache directory being a function from
\* file names to file contents
has(dir, key) == CacheHas(dir, getCachePath(key))
get(dir, key) == IF has(dir, key) THEN dir[getCachePath(key)] ELSE null
set(dir, key, body) == CacheSet(dir, getCachePath(key), body)

----------------------------------------------------------------------------
(* downloadWarrant *)

NotStarted == [pc |-> "notStarted", success |-> FALSE, transID |-> "", reason |-> "",
               writes |-> 0, fileFetches |-> 0]

Success(inv, transID) ==
    [inv EXCEPT !.pc = "returned", !.success = TRUE, !.transID = transID]

\* faulty variant: the invocation never returns
FailureNeverReturned(inv, transID, reason) == [inv EXCEPT !.pc = "hung"]

Failure(inv, transID, reason) ==
    [inv EXCEPT !.pc = "returned", !.success = FALSE, !.transID = transID,
                !.reason = reason]

\* faulty variant: the error escapes downloadWarrant
Rethrow(inv, transID, message) == [inv EXCEPT !.pc = "raised"]

\* the catch block of downloadWarrant
Catch(inv, transID, message) == Failure(inv, transID, message)

\* faulty variant: the file request is issued although the page has no terms link
AfterDetailAlwaysFetch(inv, transID, html) ==
    [inv EXCEPT !.pc = "file", !.fileFetches = @ + 1]

\* after html is known: extractTermsURL, then the file request is issued
AfterDetail(inv, transID, html) ==
    IF ~html.terms
    THEN Failure(inv, transID, TermsNotFound)
    ELSE [inv EXCEPT !.pc = "file", !.fileFetches = @ + 1]

\* the synchronous prefix of downloadWarrant, up to its first await
WorkerStart(c, transID) ==
    IF NoHtml(c, DetailKey(transID))
    THEN [NotStarted EXCEPT !.pc = "sleep"]
    ELSE AfterDetail(NotStarted, transID, c[DetailKey(transID)])

\* fs.writeFileSync(filepath, fileResponse.data)
WriteFile(dir, transID) == dir \cup {transID}
Wrote(inv) == [inv EXCEPT !.writes = @ + 1]

Outcome(inv) == [success |-> inv.success, transID |-> inv.transID, reason |-> inv.reason]

InFlight(inv) == inv.pc \in {"sleep", "detail", "file"}
Settled(inv)  == inv.pc \in {"returned", "raised"}

----------------------------------------------------------------------------
(* processDownloads *)

Min(a, b) == IF a < b THEN a ELSE b

\* transIDs.slice(i, i + CONFIG.concurrentDownloads), as positions of transIDs
BatchEnd(ids, from, c) == Min(from + c, Len(ids))
\* faulty variant: the slice is one entry too short
BatchShort(ids, from, c) == (from + 1)..(Min(from + c, Len(ids)) - 1)

\* faulty variant: the slice is one entry too long
BatchWide(ids, from, c) == (from + 1)..Min(from + c + 1, Len(ids))

Batch(ids, from, c) == (from + 1)..BatchEnd(ids, from, c)

\* faulty variant: the batch is joined as soon as one of its workers has settled
AnySettled(invs, batch) == \E n \in batch : Settled(invs[n])

\* faulty variant: Promise.all is not awaited
NoAwait(invs, batch) == TRUE

\* await Promise.all(...) resumes
AllSettled(invs, batch) == \A n \in batch : Settled(invs[n])

----------------------------------------------------------------------------

\* no ProgressTracker method called on its own, no fetchWithRetry call
NoCall == [name |-> "none", ids |-> <<>>, result |-> Outcome(NotStarted), id |-> "",
           before |-> EmptyData, threw |-> FALSE, returned |-> <<>>]
NoRequest == [pc |-> "none", retries |-> 0, attempt |-> 0, gets |-> 0, errors |-> <<>>,
              slept |-> <<>>, response |-> 0, error |-> <<>>]
NoProbe == [op |-> "none"]
NoDownload == [pc |-> "none"]
NoFilter == [pc |-> "none"]
NoApplication == [pc |-> "none"]
AuxInit ==
    /\ call = NoCall
    /\ req = NoRequest
    /\ probe = NoProbe
    /\ dl = NoDownload
    /\ gen = NoFilter
    /\ fn = NoApplication

----------------------------------------------------------------------------
(* fetchWithRetry *)

\* CONFIG.retryDelay, in milliseconds
retryDelay == 2000

\* the retries argument (CONFIG.retryAttempts by default)
RetryCounts == 1..MaxRetries
\* what httpClient.get rejects with
HttpErrors == {"ETIMEDOUT", "ECONNRESET", "status 500"}

\* the head of the for loop with the loop variable at a: the next
\* httpClient.get is issued, or the loop ends and the function returns undefined
LoopHead(r, a) ==
    IF a <= r.retries
    THEN [r EXCEPT !.pc = "get", !.attempt = a, !.gets = @ + 1]
    ELSE [r EXCEPT !.pc = "returned", !.attempt = a, !.response = 0]

\* faulty variant: the response is not returned, the loop goes on
ResolvedNotReturned(r) ==
    IF r.attempt < r.retries
    THEN LoopHead(r, r.attempt + 1)
    ELSE [r EXCEPT !.pc = "returned", !.response = r.attempt]

\* return response: the response of attempt number r.attempt
Resolved(r) == [r EXCEPT !.pc = "returned", !.response = r.attempt]

\* faulty variant: the same delay after every failed attempt
BackoffConstant(attempt) == retryDelay

\* CONFIG.retryDelay * attempt
Backoff(attempt) == retryDelay * attempt

\* faulty variant: the error of the first attempt is the one thrown
RejectedThrowsFirst(r, e) ==
    IF r.attempt = r.retries
    THEN [r EXCEPT !.pc = "threw", !.errors = Append(@, e),
                   !.error = <<1, Append(r.errors, e)[1]>>]
    ELSE [r EXCEPT !.pc = "sleep", !.errors = Append(@, e),
                   !.slept = Append(@, Backoff(r.attempt))]

\* the catch block: rethrow on the last attempt, else sleep
Rejected(r, e) ==
    IF r.attempt = r.retries
    THEN [r EXCEPT !.pc = "threw", !.errors = Append(@, e), !.error = <<r.attempt, e>>]
    ELSE [r EXCEPT !.pc = "sleep", !.errors = Append(@, e),
                   !.slept = Append(@, Backoff(r.attempt))]

VolatileInit ==
    /\ pc = "idle"
    /\ range = "r1"
    /\ concurrentDownloads = 1
    /\ data = EmptyData
    /\ allTransIDs = <<>>
    /\ transIDs = <<>>
    /\ i = 0
    /\ w = <<>>
    /\ k = 0
    /\ results = <<>>

Init ==
    /\ progressFile = NoFile
    /\ cache = <<>>
    /\ files = {}
    /\ runs = 0
    /\ VolatileInit
    /\ AuxInit

\* no process is running: none was started yet, or the last one exited with
\* status 0 or 1 or was killed
Stopped == {"idle", "exit0", "exit1", "killed"}

\* the process ends (process.exit, or it is killed): memory is lost
ProcessEnds(status) ==
    /\ pc' = status
    /\ range' = "r1"
    /\ concurrentDownloads' = 1
    /\ data' = EmptyData
    /\ allTransIDs' = <<>>
    /\ transIDs' = <<>>
    /\ i' = 0
    /\ w' = <<>>
    /\ k' = 0
    /\ results' = <<>>

\* main: getUserInputs .. new ProgressTracker(CONFIG.progressFile)
StartRunWith(rs, cs) ==
    /\ pc \in Stopped
    /\ runs < MaxRuns
    /\ \E r \in rs, c \in cs :
         /\ range' = r
         /\ concurrentDownloads' = c
    /\ data' = Load(progressFile)
    /\ pc' = "listing"
    /\ runs' = runs + 1
    /\ UNCHANGED <<durable, allTransIDs, transIDs, i, w, k, results, aux>>

StartRun == StartRunWith(Ranges, ConcurrencyLevels)

\* faulty variant: something is stored under the listing key before the
\* error is thrown
ListingErrorCached ==
    /\ ProcessEnds("exit1")
    /\ cache' = CacheSet(cache, ListingKey(range), EmptyBody)

\* fetchWithRetry threw in extractTransIDs: its catch rethrows, main's catch
\* exits with status 1
ListingError ==
    /\ ProcessEnds("exit1")
    /\ UNCHANGED cache

\* faulty variant: an empty listing is reported as an error
NoWarrantsFoundIsFatal == ProcessEnds("exit1")

\* main: allTransIDs.length === 0, 'No warrants found', process.exit(0)
NoWarrantsFound == ProcessEnds("exit0")

\* extractTransIDs, and main's check for an empty listing; bodies are the
\* bodies the site may answer the listing request with
ExtractTransIDsWith(bodies) ==
    /\ pc = "listing"
    /\ LET key == ListingKey(range)
           fetch == NoHtml(cache, key)
       IN \/ /\ fetch
             /\ ListingError
          \/ \E html \in (IF fetch THEN bodies ELSE {cache[key]}) :
               /\ cache' = IF fetch THEN CacheSet(cache, key, html) ELSE cache
               /\ IF ParseListing(html) = <<>>
                  THEN NoWarrantsFound
                  ELSE /\ allTransIDs' = ParseListing(html)
                       /\ pc' = "setPending"
                       /\ UNCHANGED <<range, concurrentDownloads, data, transIDs, i, w,
                                      k, results>>
    /\ UNCHANGED <<progressFile, files, runs, aux>>

ExtractTransIDs == ExtractTransIDsWith({ListingBody(range)})

\* main: progress.setPending(allTransIDs) .. the call of processDownloads
SetPending ==
    /\ pc = "setPending"
    /\ LET d == setPending(data, allTransIDs) IN
         /\ progressFile' = writeFileSync(progressFile, Save(d))
         /\ IF getPending(d) = <<>>
            THEN ProcessEnds("exit0")
            ELSE /\ data' = d
                 /\ transIDs' = getPending(d)
                 /\ w' = [n \in 1..Len(getPending(d)) |-> NotStarted]
                 /\ i' = 0
                 /\ results' = <<>>
                 /\ pc' = "batch"
                 /\ UNCHANGED <<range, concurrentDownloads, allTransIDs, k>>
    /\ UNCHANGED <<cache, files, runs, aux>>

\* one iteration of the for loop begins: batch.map(downloadWarrant)
StartBatch ==
    /\ pc = "batch"
    /\ i < Len(transIDs)
    /\ w' = [n \in 1..Len(transIDs) |->
               IF n \in Batch(transIDs, i, concurrentDownloads)
               THEN WorkerStart(cache, transIDs[n])
               ELSE w[n]]
    /\ pc' = "await"
    /\ UNCHANGED <<durable, range, concurrentDownloads, data, allTransIDs, transIDs,
                   i, k, results, runs, aux>>

\* await sleep(CONFIG.requestDelay) resumes; the detail request is issued
SleepDone(n) ==
    /\ pc = "await"
    /\ w[n].pc = "sleep"
    /\ w' = [w EXCEPT ![n].pc = "detail"]
    /\ UNCHANGED <<durable, pc, range, concurrentDownloads, data, allTransIDs, transIDs,
                   i, k, results, runs, aux>>

\* the detail request of invocation n settles; bodies are the bodies the site
\* may answer it with
DetailDoneWith(n, bodies) ==
    /\ pc = "await"
    /\ w[n].pc = "detail"
    /\ \/ /\ w' = [w EXCEPT ![n] = Catch(@, transIDs[n], FetchError)]
          /\ UNCHANGED cache
       \/ \E html \in bodies :
            /\ cache' = CacheSet(cache, DetailKey(transIDs[n]), html)
            /\ w' = [w EXCEPT ![n] = AfterDetail(@, transIDs[n], html)]
    /\ UNCHANGED <<progressFile, files, pc, range, concurrentDownloads, data, allTransIDs,
                   transIDs, i, k, results, runs, aux>>

DetailDone(n) == DetailDoneWith(n, DetailBodies)

\* the file request of invocation n settles; on success the file is written
FileDone(n) ==
    /\ pc = "await"
    /\ w[n].pc = "file"
    /\ \/ /\ w' = [w EXCEPT ![n] = Catch(@, transIDs[n], FetchError)]
          /\ UNCHANGED files
       \/ /\ w' = [w EXCEPT ![n] = Catch(@, transIDs[n], WriteError)]
          /\ UNCHANGED files
       \/ /\ files' = WriteFile(files, transIDs[n])
          /\ w' = [w EXCEPT ![n] = Success(Wrote(@), transIDs[n])]
    /\ UNCHANGED <<progressFile, cache, pc, range, concurrentDownloads, data, allTransIDs,
                   transIDs, i, k, results, runs, aux>>

\* await Promise.all resumes (or rejects, which ends the run in main's catch)
BatchJoin ==
    /\ pc = "await"
    /\ AllSettled(w, Batch(transIDs, i, concurrentDownloads))
    /\ IF \E n \in Batch(transIDs, i, concurrentDownloads) : w[n].pc = "raised"
       THEN ProcessEnds("exit1")
       ELSE /\ pc' = "record"
            /\ k' = i + 1
            /\ UNCHANGED <<range, concurrentDownloads, data, allTransIDs, transIDs, i, w,
                           results>>
    /\ UNCHANGED <<durable, runs, aux>>

\* one callback of batchResults.forEach; after the last one, i += concurrentDownloads
RecordResult ==
    /\ pc = "record"
    /\ LET result == Outcome(w[k])
           d == IF result.success THEN markCompleted(data, result)
                                  ELSE markFailed(data, result)
       IN /\ data' = d
          /\ progressFile' = writeFileSync(progressFile, Save(d))
          /\ results' = Append(results, result)
    /\ IF k = BatchEnd(transIDs, i, concurrentDownloads)
       THEN /\ i' = i + concurrentDownloads
            /\ k' = 0
            /\ pc' = "batch"
       ELSE /\ k' = k + 1
            /\ UNCHANGED <<i, pc>>
    /\ UNCHANGED <<cache, files, range, concurrentDownloads, allTransIDs, transIDs, w, runs, aux>>

\* the for loop ends: processDownloads returns
ProcessDownloadsReturn ==
    /\ pc = "batch"
    /\ i >= Len(transIDs)
    /\ pc' = "done"
    /\ UNCHANGED <<durable, range, concurrentDownloads, data, allTransIDs, transIDs,
                   i, w, k, results, runs, aux>>

\* displaySummary, the final prompt, the process exits
ExitRun ==
    /\ pc = "done"
    /\ ProcessEnds("exit0")
    /\ UNCHANGED <<durable, runs, aux>>

\* the run is interrupted (the process is killed)
Interrupt ==
    /\ pc \notin Stopped \cup {"done"}
    /\ ProcessEnds("killed")
    /\ UNCHANGED <<durable, runs, aux>>

Next ==
    \/ StartRun
    \/ ExtractTransIDs
    \/ SetPending
    \/ StartBatch
    \/ \E n \in 1..Len(w) : SleepDone(n)
    \/ \E n \in 1..Len(w) : DetailDone(n)
    \/ \E n \in 1..Len(w) : FileDone(n)
    \/ BatchJoin
    \/ RecordResult
    \/ ProcessDownloadsReturn
    \/ ExitRun
    \/ Interrupt

Spec == Init /\ [][Next]_vars

\* runs that are not interrupted
NextSchedule ==
    \/ StartRun
    \/ ExtractTransIDs
    \/ SetPending
    \/ StartBatch
    \/ \E n \in 1..Len(w) : SleepDone(n)
    \/ \E n \in 1..Len(w) : DetailDone(n)
    \/ \E n \in 1..Len(w) : FileDone(n)
    \/ BatchJoin
    \/ RecordResult
    \/ ProcessDownloadsReturn
    \/ ExitRun

\* every timer fires and every Transport call settles, and the event loop
\* runs every continuation of processDownloads that is ready
Fairness ==
    /\ WF_vars(StartBatch)
    /\ WF_vars(\E n \in 1..Len(w) : SleepDone(n))
    /\ WF_vars(\E n \in 1..Len(w) : DetailDone(n))
    /\ WF_vars(\E n \in 1..Len(w) : FileDone(n))
    /\ WF_vars(BatchJoin)
    /\ WF_vars(RecordResult)
    /\ WF_vars(ProcessDownloadsReturn)

SpecSchedule == Init /\ [][NextSchedule]_vars /\ Fairness

\* the run is interrupted while the process waits for a timer or a response:
\* the listing request, or a batch with a worker still in flight
InterruptWhileWaiting ==
    /\ \/ pc = "listing"
       \/ pc = "await" /\ \E n \in 1..Len(w) : InFlight(w[n])
    /\ ProcessEnds("killed")
    /\ UNCHANGED <<durable, runs, aux>>

\* every run is started with the same config
StartRunSameConfig == StartRunWith({"r1"}, {MaxConcurrent})

NextResume ==
    \/ StartRunSameConfig
    \/ ExtractTransIDs
    \/ SetPending
    \/ StartBatch
    \/ \E n \in 1..Len(w) : SleepDone(n)
    \/ \E n \in 1..Len(w) : DetailDone(n)
    \/ \E n \in 1..Len(w) : FileDone(n)
    \/ BatchJoin
    \/ RecordResult
    \/ ProcessDownloadsReturn
    \/ ExitRun
    \/ InterruptWhileWaiting

\* restarts with the same config, interrupted only where the process is waiting
SpecResume == Init /\ [][NextResume]_vars

NextTwice ==
    \/ StartRunSameConfig
    \/ ExtractTransIDs
    \/ SetPending
    \/ StartBatch
    \/ \E n \in 1..Len(w) : SleepDone(n)
    \/ \E n \in 1..Len(w) : DetailDone(n)
    \/ \E n \in 1..Len(w) : FileDone(n)
    \/ BatchJoin
    \/ RecordResult
    \/ ProcessDownloadsReturn
    \/ ExitRun

\* runs with the same config, one after the other, none of them interrupted
SpecTwice == Init /\ [][NextTwice]_vars

\* the site may answer a request with an empty body
ExtractTransIDsMaybeEmpty == ExtractTransIDsWith({ListingBody(range), EmptyBody})
DetailDoneMaybeEmpty(n) == DetailDoneWith(n, DetailBodies \cup {EmptyBody})

NextEmpty ==
    \/ StartRunSameConfig
    \/ ExtractTransIDsMaybeEmpty
    \/ SetPending
    \/ StartBatch
    \/ \E n \in 1..Len(w) : SleepDone(n)
    \/ \E n \in 1..Len(w) : DetailDoneMaybeEmpty(n)
    \/ \E n \in 1..Len(w) : FileDone(n)
    \/ BatchJoin
    \/ RecordResult
    \/ ProcessDownloadsReturn
    \/ ExitRun

\* uninterrupted runs with the same config against a site that may answer
\* with empty bodies
SpecEmpty == Init /\ [][NextEmpty]_vars

\* the pages the site may answer the listing request with: the listing of the
\* range, the empty string, a table without any TransID link, and a table in
\* which an item is listed twice among rows without a TransID link
NoItemsBody   == [empty |-> FALSE, rows |-> <<NoLinkRow, NoMatchRow>>, terms |-> FALSE]
RepeatingBody == [empty |-> FALSE,
                  rows |-> <<Row("1"), NoLinkRow, Row("2"), NoMatchRow, Row("1")>>,
                  terms |-> FALSE]
ListingPages(r) == {ListingBody(r), EmptyBody, NoItemsBody, RepeatingBody}
ExtractTransIDsAnyPage == ExtractTransIDsWith(ListingPages(range))

NextPages ==
    \/ StartRunSameConfig
    \/ ExtractTransIDsAnyPage
    \/ SetPending
    \/ StartBatch
    \/ \E n \in 1..Len(w) : SleepDone(n)
    \/ \E n \in 1..Len(w) : DetailDone(n)
    \/ \E n \in 1..Len(w) : FileDone(n)
    \/ BatchJoin
    \/ RecordResult
    \/ ProcessDownloadsReturn
    \/ ExitRun

\* uninterrupted runs with the same config against a site that may answer the
\* listing request with any of ListingPages
SpecPages == Init /\ [][NextPages]_vars

----------------------------------------------------------------------------
(* Runs on a disk that may refuse to write the progress file *)

\* fs.writeFileSync throws: the file is as it was, or it is cut short
writeFileSyncThrows(file) == {file, NotJson}

SaveErrorSwallowed(Rest) == Rest
\* save() throws inside setPending, markCompleted or markFailed: the
\* statements Rest that follow the call are not executed, the error reaches
\* the catch of main, which exits with status 1
SaveError(Rest) == ProcessEnds("exit1")

\* main: progress.setPending(allTransIDs), whose save() throws
SetPendingSaveFails ==
    /\ pc = "setPending"
    /\ progressFile' \in writeFileSyncThrows(progressFile)
    /\ SaveError(LET d == setPending(data, allTransIDs) IN
                 IF getPending(d) = <<>>
                 THEN ProcessEnds("exit0")
                 ELSE /\ data' = d
                      /\ transIDs' = getPending(d)
                      /\ w' = [n \in 1..Len(getPending(d)) |-> NotStarted]
                      /\ i' = 0
                      /\ results' = <<>>
                      /\ pc' = "batch"
                      /\ UNCHANGED <<range, concurrentDownloads, allTransIDs, k>>)
    /\ UNCHANGED <<cache, files, runs, aux>>

\* one callback of batchResults.forEach, whose save() throws
RecordResultSaveFails ==
    /\ pc = "record"
    /\ progressFile' \in writeFileSyncThrows(progressFile)
    /\ SaveError(LET result == Outcome(w[k]) IN
                 /\ data' = IF result.success THEN markCompleted(data, result)
                                              ELSE markFailed(data, result)
                 /\ results' = Append(results, result)
                 /\ IF k = BatchEnd(transIDs, i, concurrentDownloads)
                    THEN /\ i' = i + concurrentDownloads
                         /\ k' = 0
                         /\ pc' = "batch"
                    ELSE /\ k' = k + 1
                         /\ UNCHANGED <<i, pc>>
                 /\ UNCHANGED <<range, concurrentDownloads, allTransIDs, transIDs, w>>)
    /\ UNCHANGED <<cache, files, runs, aux>>

NextDisk ==
    \/ StartRunSameConfig
    \/ ExtractTransIDs
    \/ SetPending
    \/ SetPendingSaveFails
    \/ StartBatch
    \/ \E n \in 1..Len(w) : SleepDone(n)
    \/ \E n \in 1..Len(w) : DetailDone(n)
    \/ \E n \in 1..Len(w) : FileDone(n)
    \/ BatchJoin
    \/ RecordResult
    \/ RecordResultSaveFails
    \/ ProcessDownloadsReturn
    \/ ExitRun

\* uninterrupted runs with the same config; any write of the progress file
\* may fail
SpecDisk == Init /\ [][NextDisk]_vars

----------------------------------------------------------------------------
(* One fetchWithRetry call *)

FetchWithRetry ==
    /\ req.pc = "none"
    /\ \E retries \in RetryCounts :
         req' = LoopHead([NoRequest EXCEPT !.retries = retries], 1)
    /\ UNCHANGED <<pipeline, call, probe, dl, gen, fn>>

\* await httpClient.get(url, options) resolves
GetResolves ==
    /\ req.pc = "get"
    /\ req' = Resolved(req)
    /\ UNCHANGED <<pipeline, call, probe, dl, gen, fn>>

\* await httpClient.get(url, options) rejects
GetRejects ==
    /\ req.pc = "get"
    /\ \E e \in HttpErrors : req' = Rejected(req, e)
    /\ UNCHANGED <<pipeline, call, probe, dl, gen, fn>>

\* await sleep(...) resolves: attempt++
SleepResolves ==
    /\ req.pc = "sleep"
    /\ req' = LoopHead(req, req.attempt + 1)
    /\ UNCHANGED <<pipeline, call, probe, dl, gen, fn>>

NextRetry ==
    \/ FetchWithRetry
    \/ GetResolves
    \/ GetRejects
    \/ SleepResolves

SpecRetry == Init /\ [][NextRetry]_vars

----------------------------------------------------------------------------
(* downloadWarrant up to the detail page: pacing and retries *)

\* CONFIG.retryAttempts
retryAttempts == 3
\* CONFIG.requestDelay, in milliseconds, as set from the speed the user chose
RequestDelays == {500, 1000, 2000}
\* what cache.get returns for the detail page
CachedPages == {null, EmptyBody} \cup DetailBodies

MustFetchAlways(html) == TRUE
\* if (!html): null and the empty string are falsy
MustFetch(html) == html = null \/ html.empty

\* the worker begins with what the cache has of its detail page
InitPacing ==
    /\ progressFile = NoFile
    /\ cache = <<>>
    /\ files = {}
    /\ runs = 0
    /\ VolatileInit
    /\ call = NoCall
    /\ req = NoRequest
    /\ probe = NoProbe
    /\ gen = NoFilter
    /\ fn = NoApplication
    /\ \E html \in CachedPages, requestDelay \in RequestDelays :
         dl = [pc |-> "start", html |-> html, requestDelay |-> requestDelay, sleeps |-> <<>>]

\* lines 420-423: cache.get, and await sleep(CONFIG.requestDelay) when there
\* is no page
WorkerBegins ==
    /\ dl.pc = "start"
    /\ dl' = IF MustFetch(dl.html)
             THEN [dl EXCEPT !.pc = "pacing", !.sleeps = Append(@, dl.requestDelay)]
             ELSE [dl EXCEPT !.pc = "terms"]
    /\ UNCHANGED <<pipeline, call, req, probe, gen, fn>>

\* lines 424-426: the sleep is over, fetchWithRetry(detailURL) is called
DetailRequest ==
    /\ dl.pc = "pacing"
    /\ dl' = [dl EXCEPT !.pc = "detail"]
    /\ req' = LoopHead([NoRequest EXCEPT !.retries = retryAttempts], 1)
    /\ UNCHANGED <<pipeline, call, probe, gen, fn>>

\* lines 427-428 and 472-475: fetchWithRetry has returned or thrown
DetailSettles ==
    /\ dl.pc = "detail"
    /\ req.pc \in {"returned", "threw"}
    /\ dl' = [dl EXCEPT !.pc = IF req.pc = "returned" THEN "terms" ELSE "failed"]
    /\ UNCHANGED <<pipeline, call, req, probe, gen, fn>>

NextPacing ==
    \/ WorkerBegins
    \/ DetailRequest
    \/ GetResolves
    \/ GetRejects
    \/ SleepResolves
    \/ DetailSettles

SpecPacing == InitPacing /\ [][NextPacing]_vars

----------------------------------------------------------------------------
(* A ProgressTracker on its own: any progress file, any sequence of calls *)

TrackerIDs == {"1", "2"}
SeqsUpTo(S, n) == UNION {[1..m -> S] : m \in 0..n}
SuccessOf(transID) == Outcome(Success(NotStarted, transID))
FailureOf(transID) == Outcome(Failure(NotStarted, transID, FetchError))

\* the progress file at the start: absent, not JSON, JSON null, or a saved ledger
SavedLedgers ==
    {[completed |-> c, failed |-> f, pending |-> q] :
        c \in SeqsUpTo({SuccessOf(t) : t \in TrackerIDs}, 1),
        f \in SeqsUpTo({FailureOf(t) : t \in TrackerIDs}, 1),
        q \in SeqsUpTo(TrackerIDs, 1)}
ProgressFiles ==
    {NoFile, NotJson, Stringify(JsonNull)} \cup {Stringify(d) : d \in SavedLedgers}

InitLedger ==
    /\ progressFile \in ProgressFiles
    /\ cache = <<>>
    /\ files = {}
    /\ runs = 0
    /\ VolatileInit
    /\ AuxInit

Called(name) == [NoCall EXCEPT !.name = name, !.before = data]
Threw(c) == [c EXCEPT !.threw = TRUE]
\* the object exists and no call on it has thrown
Usable == call.name # "none" /\ ~call.threw
outsideTracker == <<cache, files, pc, range, concurrentDownloads, allTransIDs, transIDs, i, w, k,
          results, runs, req, probe, dl, gen, fn>>

\* new ProgressTracker(CONFIG.progressFile)
NewProgressTracker ==
    /\ call.name = "none"
    /\ data' = Load(progressFile)
    /\ call' = Called("new")
    /\ UNCHANGED <<progressFile, outsideTracker>>

CallSetPending ==
    /\ Usable
    /\ \E ids \in SeqsUpTo(TrackerIDs, MaxListing) :
         LET c == [Called("setPending") EXCEPT !.ids = ids] IN
         IF IsObject(data)
         THEN /\ data' = setPending(data, ids)
              /\ progressFile' = writeFileSync(progressFile, Save(setPending(data, ids)))
              /\ call' = c
         ELSE /\ call' = Threw(c)
              /\ UNCHANGED <<data, progressFile>>
    /\ UNCHANGED outsideTracker

CallMarkCompleted ==
    /\ Usable
    /\ IsObject(data) => Len(data.completed) < MaxEntries
    /\ \E t \in TrackerIDs :
         LET c == [Called("markCompleted") EXCEPT !.result = SuccessOf(t)] IN
         IF IsObject(data)
         THEN /\ data' = markCompleted(data, SuccessOf(t))
              /\ progressFile' = writeFileSync(progressFile, Save(markCompleted(data, SuccessOf(t))))
              /\ call' = c
         ELSE /\ call' = Threw(c)
              /\ UNCHANGED <<data, progressFile>>
    /\ UNCHANGED outsideTracker

CallMarkFailed ==
    /\ Usable
    /\ IsObject(data) => Len(data.failed) < MaxEntries
    /\ \E t \in TrackerIDs :
         LET c == [Called("markFailed") EXCEPT !.result = FailureOf(t)] IN
         IF IsObject(data)
         THEN /\ data' = markFailed(data, FailureOf(t))
              /\ progressFile' = writeFileSync(progressFile, Save(markFailed(data, FailureOf(t))))
              /\ call' = c
         ELSE /\ call' = Threw(c)
              /\ UNCHANGED <<data, progressFile>>
    /\ UNCHANGED outsideTracker

CallIsCompleted ==
    /\ Usable
    /\ \E t \in TrackerIDs :
         LET c == [Called("isCompleted") EXCEPT !.id = t] IN
         call' = IF IsObject(data) THEN [c EXCEPT !.returned = <<isCompleted(data, t)>>]
                                   ELSE Threw(c)
    /\ UNCHANGED <<progressFile, data, outsideTracker>>

CallGetStats ==
    /\ Usable
    /\ call' = IF IsObject(data) THEN [Called("getStats") EXCEPT !.returned = <<getStats(data)>>]
                                  ELSE Threw(Called("getStats"))
    /\ UNCHANGED <<progressFile, data, outsideTracker>>

NextLedger ==
    \/ NewProgressTracker
    \/ CallSetPending
    \/ CallMarkCompleted
    \/ CallMarkFailed
    \/ CallIsCompleted
    \/ CallGetStats

SpecLedger == InitLedger /\ [][NextLedger]_vars

----------------------------------------------------------------------------
(* A CacheManager on its own: any sequence of calls *)

Keys == UNION {[1..m -> KeyChars] : m \in 1..MaxKeyLen}
Bodies == {EmptyBody, DetailBody(TRUE)}
outsideCache == <<progressFile, files, volatile, runs, call, req, dl, gen, fn>>

\* the cache directory at the start: empty, or left by an earlier run with a
\* file for the key "/"
InitCache ==
    /\ cache \in {<<>>} \cup {set(<<>>, <<"/">>, body) : body \in Bodies}
    /\ progressFile = NoFile
    /\ files = {}
    /\ runs = 0
    /\ VolatileInit
    /\ AuxInit

\* a method call: its name and arguments, the directory before it, what it
\* returned and the number of set calls so far
Sets == IF probe.op = "none" THEN 0 ELSE probe.sets
Probe(op, key, body, returned) ==
    [op |-> op, key |-> key, body |-> body, before |-> cache, returned |-> returned,
     sets |-> Sets + (IF op = "set" THEN 1 ELSE 0)]

CallSet ==
    /\ Sets < MaxSets
    /\ \E key \in Keys, body \in Bodies :
         /\ cache' = set(cache, key, body)
         /\ probe' = Probe("set", key, body, null)
    /\ UNCHANGED outsideCache

CallHas ==
    /\ \E key \in Keys : probe' = Probe("has", key, null, [has |-> has(cache, key)])
    /\ UNCHANGED <<cache, outsideCache>>

CallGet ==
    /\ \E key \in Keys : probe' = Probe("get", key, null, get(cache, key))
    /\ UNCHANGED <<cache, outsideCache>>

NextCache ==
    \/ CallSet
    \/ CallHas
    \/ CallGet

SpecCache == InitCache /\ [][NextCache]_vars

----------------------------------------------------------------------------
(* downloadWarrant on its own: the name and the place of the terms file *)

\* a content-disposition header is a string of these pieces; a name is made of
\* "a", "/", ".." and ".progress.json"
HeaderChars == {"filename", "=", ";", "\"", "'", "a", "/", "..", ".progress.json"}
Quotes == {"\"", "'"}
HeaderValues == UNION {[1..m -> HeaderChars] : m \in 0..MaxHeader}
\* fileResponse.headers['content-disposition']: undefined or a string
ContentDispositions ==
    {[present |-> FALSE, value |-> <<>>]}
        \cup {[present |-> TRUE, value |-> v] : v \in HeaderValues}
Symbols == {<<>>, <<"a", "/">>}

\* [^;=\n]*= : the position of the "=" that ends it, 0 if there is none
RECURSIVE SkipToEquals(_, _)
SkipToEquals(h, p) ==
    IF p > Len(h) THEN 0
    ELSE IF h[p] = "=" THEN p
    ELSE IF h[p] = ";" THEN 0
    ELSE SkipToEquals(h, p + 1)

\* .*?\2 : the position of the first quote q at or after p, 0 if there is none
RECURSIVE ClosingQuote(_, _, _)
ClosingQuote(h, q, p) ==
    IF p > Len(h) THEN 0
    ELSE IF h[p] = q THEN p
    ELSE ClosingQuote(h, q, p + 1)

\* [^;\n]* : the position of the last piece it takes from p on, p - 1 if none
RECURSIVE EndOfValue(_, _)
EndOfValue(h, p) ==
    IF p > Len(h) \/ h[p] = ";" THEN p - 1
    ELSE EndOfValue(h, p + 1)

\* ((['"]).*?\2|[^;\n]*) right after the "=" at position e
Group1(h, e) ==
    IF /\ e < Len(h)
       /\ h[e + 1] \in Quotes
       /\ ClosingQuote(h, h[e + 1], e + 2) # 0
    THEN SubSeq(h, e + 1, ClosingQuote(h, h[e + 1], e + 2))
    ELSE SubSeq(h, e + 1, EndOfValue(h, e + 1))

NoMatch == [matched |-> FALSE, group1 |-> <<>>]
\* contentDisposition.match(/filename[^;=\n]*=((['"]).*?\2|[^;\n]*)/), tried
\* from position p on: the leftmost match
RECURSIVE filenameMatch(_, _)
filenameMatch(h, p) ==
    IF p > Len(h) THEN NoMatch
    ELSE IF h[p] = "filename" /\ SkipToEquals(h, p + 1) # 0
         THEN [matched |-> TRUE, group1 |-> Group1(h, SkipToEquals(h, p + 1))]
         ELSE filenameMatch(h, p + 1)

\* filenameMatch[1].replace(/['"]/g, '')
StripQuotes(s) == SelectSeq(s, LAMBDA ch : ch \notin Quotes)

safeSymbolRaw(symbol) == symbol
\* termsInfo.symbol.replace(/[^a-zA-Z0-9]/g, '_')
safeSymbol(symbol) == [n \in 1..Len(symbol) |-> IF IsAlnum(symbol[n]) THEN symbol[n] ELSE "_"]

\* the filename of the terms file; null and '' are both falsy
filename(contentDisposition, symbol, transID) ==
    LET m == IF contentDisposition.present /\ contentDisposition.value # <<>>
             THEN filenameMatch(contentDisposition.value, 1)
             ELSE NoMatch
        named == IF m.matched /\ m.group1 # <<>> THEN StripQuotes(m.group1) ELSE <<>>
    IN  IF named # <<>> THEN named
        ELSE safeSymbol(symbol) \o <<"_Terms_", transID, ".pdf">>

\* paths are sequences of segments, a segment is a sequence of pieces
downloadDir == <<<<"downloads">>>>
ledgerPath == downloadDir \o <<<<".progress.json">>>>

\* the segments of a name: the pieces between the "/"
RECURSIVE Segments(_, _)
Segments(name, seg) ==
    IF name = <<>> THEN (IF seg = <<>> THEN <<>> ELSE <<seg>>)
    ELSE IF Head(name) = "/"
         THEN (IF seg = <<>> THEN <<>> ELSE <<seg>>) \o Segments(Tail(name), <<>>)
         ELSE Segments(Tail(name), Append(seg, Head(name)))

\* path.normalize: a ".." segment removes the segment before it
RECURSIVE Normalize(_, _)
Normalize(segs, done) ==
    IF segs = <<>> THEN done
    ELSE IF Head(segs) = <<"..">> /\ done # <<>> /\ done[Len(done)] # <<"..">>
         THEN Normalize(Tail(segs), SubSeq(done, 1, Len(done) - 1))
         ELSE Normalize(Tail(segs), Append(done, Head(segs)))

\* path.join(CONFIG.downloadDir, filename); slash: the path ends with a "/"
join(dir, name) ==
    [segments |-> Normalize(dir \o Segments(name, <<>>), <<>>),
     slash    |-> name # <<>> /\ name[Len(name)] = "/"]

\* the directories there are: the download directory, the working directory
\* it is in, and the directories above
IsDirectory(path) == path = downloadDir \/ \A n \in 1..Len(path) : path[n] = <<"..">>
\* fs.writeFileSync creates or replaces a file in a directory there is
CanWrite(filepath) ==
    /\ ~filepath.slash
    /\ filepath.segments # <<>>
    /\ ~IsDirectory(filepath.segments)
    /\ IsDirectory(SubSeq(filepath.segments, 1, Len(filepath.segments) - 1))

outsideDownload == <<durable, volatile, runs, call, req, probe, gen, fn>>

\* the file response has arrived for an item with some symbol
InitFilename ==
    /\ progressFile = NoFile
    /\ cache = <<>>
    /\ files = {}
    /\ runs = 0
    /\ VolatileInit
    /\ call = NoCall
    /\ req = NoRequest
    /\ probe = NoProbe
    /\ gen = NoFilter
    /\ fn = NoApplication
    /\ \E contentDisposition \in ContentDispositions, symbol \in Symbols, transID \in {"1"} :
         dl = [pc |-> "file", contentDisposition |-> contentDisposition,
               symbol |-> symbol, transID |-> transID]

\* lines 441-456: the name and the path
NameFile ==
    /\ dl.pc = "file"
    /\ LET name == filename(dl.contentDisposition, dl.symbol, dl.transID)
       IN  dl' = [pc |-> "named", contentDisposition |-> dl.contentDisposition,
                  symbol |-> dl.symbol, transID |-> dl.transID,
                  filename |-> name, filepath |-> join(downloadDir, name)]
    /\ UNCHANGED outsideDownload

\* line 457: the write, which throws where no file can be written
WriteTermsFile ==
    /\ dl.pc = "named"
    /\ dl' = [dl EXCEPT !.pc = IF CanWrite(dl.filepath) THEN "written" ELSE "failed"]
    /\ UNCHANGED outsideDownload

NextFilename ==
    \/ NameFile
    \/ WriteTermsFile

SpecFilename == InitFilename /\ [][NextFilename]_vars

----------------------------------------------------------------------------
(* The link generator (src/sec-dw-link-generator.js): the identifier filter *)

\* String.prototype.trim and cheerio's text().trim()
trim(text) == IF text = " X " THEN "X" ELSE text
\* the texts of the symbol cell of a listing row
CellTexts == {"", " X ", "Y", "Z"}
\* the cells of the identifier column of the Excel sheet
ColumnCells == {"", " X ", "Z"}

NoLink == [link |-> FALSE]
Link(transID) == [link |-> TRUE, transID |-> transID]
Cell(text, href) == [text |-> text, href |-> href]
\* the rows of the listing table: one without cells, one with two cells, and
\* the rows with three cells, the last of them with the link of the item
PageRows ==
    {<<>>, <<Cell("Y", NoLink), Cell("Z", Link("1"))>>}
        \cup {<<Cell("Y", NoLink), Cell("Y", NoLink), Cell(text, Link(transID))>> :
                 text \in CellTexts, transID \in TrackerIDs}
Pages == UNION {[1..m -> PageRows] : m \in 0..MaxRows}

\* the filter the user asked for: none, or the cells of the column of the sheet
FilterInputs ==
    {[useFilter |-> FALSE, column |-> {}]}
        \cup {[useFilter |-> TRUE, column |-> c] : c \in SUBSET ColumnCells}

\* new Set(rows.map((r) => String(r[colName]).trim()).filter(Boolean))
Identifiers(column) == {trim(c) : c \in column} \ {""}

\* the row object parseListing builds from the cells of a table row
ParsedRow(cells) ==
    [symbol  |-> IF Len(cells) >= 3 THEN trim(cells[3].text) ELSE "",
     transID |-> IF cells[Len(cells)].href.link
                 THEN <<cells[Len(cells)].href.transID>> ELSE <<>>]

\* parseListing: the rows, in table order, without the rows that have no cell
RECURSIVE parseListing(_)
parseListing(page) ==
    IF page = <<>> THEN <<>>
    ELSE IF Head(page) = <<>> THEN parseListing(Tail(page))
    ELSE <<ParsedRow(Head(page))>> \o parseListing(Tail(page))

MatchesAnySymbol(r, filterIdentifiers) == r.symbol # ""
\* (r) => r.symbol && filterIdentifiers.has(r.symbol)
Matches(r, filterIdentifiers) == r.symbol # "" /\ r.symbol \in filterIdentifiers

\* rows.filter(...)
RECURSIVE filter(_, _)
filter(rows, filterIdentifiers) ==
    IF rows = <<>> THEN <<>>
    ELSE IF Matches(Head(rows), filterIdentifiers)
         THEN <<Head(rows)>> \o filter(Tail(rows), filterIdentifiers)
         ELSE filter(Tail(rows), filterIdentifiers)

outsideGenerator == <<durable, volatile, runs, call, req, probe, dl, fn>>

InitGenerator ==
    /\ progressFile = NoFile
    /\ cache = <<>>
    /\ files = {}
    /\ runs = 0
    /\ VolatileInit
    /\ call = NoCall
    /\ req = NoRequest
    /\ probe = NoProbe
    /\ dl = NoDownload
    /\ fn = NoApplication
    /\ \E input \in FilterInputs, page \in Pages :
         gen = [pc |-> "inputs", input |-> input, page |-> page,
                useFilter |-> FALSE, filterIdentifiers |-> {}, parsed |-> <<>>, rows |-> <<>>]

\* getLinkGenInputs: filterIdentifiers stays null, or is the set of the
\* identifiers of the column; the program exits when there is none
GetLinkGenInputs ==
    /\ gen.pc = "inputs"
    /\ gen' = IF ~gen.input.useFilter
              THEN [gen EXCEPT !.pc = "fetched"]
              ELSE IF Identifiers(gen.input.column) = {}
                   THEN [gen EXCEPT !.pc = "exit1"]
                   ELSE [gen EXCEPT !.pc = "fetched", !.useFilter = TRUE,
                                    !.filterIdentifiers = Identifiers(gen.input.column)]
    /\ UNCHANGED outsideGenerator

\* runLinkGenerator, lines 506-513: parse the listing, return when it has no row
ParseListingPage ==
    /\ gen.pc = "fetched"
    /\ LET rows == parseListing(gen.page)
       IN  gen' = [gen EXCEPT !.pc = IF rows = <<>> THEN "returned" ELSE "parsed",
                              !.parsed = rows, !.rows = rows]
    /\ UNCHANGED outsideGenerator

\* runLinkGenerator, lines 515-528: filter the rows, return when none is left
FilterRows ==
    /\ gen.pc = "parsed"
    /\ gen.useFilter
    /\ LET rows == filter(gen.rows, gen.filterIdentifiers)
       IN  gen' = [gen EXCEPT !.pc = IF rows = <<>> THEN "returned" ELSE "filtered",
                              !.rows = rows]
    /\ UNCHANGED outsideGenerator

\* runLinkGenerator, line 530: the page is built from the rows
BuildPage ==
    /\ \/ gen.pc = "parsed" /\ ~gen.useFilter
       \/ gen.pc = "filtered"
    /\ gen' = [gen EXCEPT !.pc = "built"]
    /\ UNCHANGED outsideGenerator

NextGenerator ==
    \/ GetLinkGenInputs
    \/ ParseListingPage
    \/ FilterRows
    \/ BuildPage

SpecGenerator == InitGenerator /\ [][NextGenerator]_vars

----------------------------------------------------------------------------
(* Functions of the program applied on their own *)

outsideFunction == <<pipeline, call, req, probe, dl, gen>>
\* nothing but the function applied is going on
OnlyFunction ==
    /\ progressFile = NoFile
    /\ cache = <<>>
    /\ files = {}
    /\ runs = 0
    /\ VolatileInit
    /\ call = NoCall
    /\ req = NoRequest
    /\ probe = NoProbe
    /\ dl = NoDownload
    /\ gen = NoFilter

----------------------------------------------------------------------------
(* extractTransIDs on its own: the rows of the listing table *)

\* the href attributes of the links of a listing page
Hrefs == {"x=1", "TransID=", "TransID=1", "TransID=2"}
\* a table row, as the links in its last cell in document order
TableRows == {<<>>} \cup {<<a>> : a \in Hrefs} \cup {<<a, b>> : a, b \in Hrefs}
ListingTables == UNION {[1..m -> TableRows] : m \in 0..MaxListing}

\* $(row).find('td:last-child a').attr('href'): the attribute of the first
\* link, undefined when there is no link
filingLink(row) ==
    IF row = <<>> THEN [defined |-> FALSE, href |-> ""]
    ELSE [defined |-> TRUE, href |-> row[1]]

\* filingLink.match(/TransID=(\d+)/): match[1], "" where match is null
match(href) ==
    IF href = "TransID=1" THEN "1"
    ELSE IF href = "TransID=2" THEN "2"
    ELSE ""

TruthyUnchecked(link) == TRUE
\* if (filingLink)
Truthy(link) == link.defined /\ link.href # ""

\* the row as the loop of extractTransIDs sees it
RowOf(row) ==
    [link    |-> Truthy(filingLink(row)),
     transID |-> IF filingLink(row).defined THEN match(filingLink(row).href) ELSE ""]
\* undefined.match(...) throws a TypeError
RowThrows(row) == Truthy(filingLink(row)) /\ ~filingLink(row).defined

\* lines 357-370: the loop over the rows and the return, or the error thrown
extractTransIDs(table) ==
    IF \E n \in 1..Len(table) : RowThrows(table[n])
    THEN [threw |-> TRUE, transIDs |-> <<>>]
    ELSE [threw |-> FALSE, transIDs |-> RowIDs([n \in 1..Len(table) |-> RowOf(table[n])])]

InitListing ==
    /\ OnlyFunction
    /\ \E table \in ListingTables : fn = [pc |-> "table", table |-> table]

ExtractRows ==
    /\ fn.pc = "table"
    /\ fn' = [pc |-> "extracted", table |-> fn.table,
              threw |-> extractTransIDs(fn.table).threw,
              transIDs |-> extractTransIDs(fn.table).transIDs]
    /\ UNCHANGED outsideFunction

NextListing ==
    \/ ExtractRows

SpecListing == InitListing /\ [][NextListing]_vars

----------------------------------------------------------------------------
(* displaySummary on its own *)

\* the largest number of failures whose reasons are listed
reasonLimit == 10

\* the outcome list of a run: the n-th outcome is of item n, a success with
\* the size of its file or a failure with its reason
OutcomeOf(n, success) ==
    IF success THEN [success |-> TRUE, transID |-> n, fileSize |-> n]
    ELSE [success |-> FALSE, transID |-> n, reason |-> FetchError]
OutcomeLists ==
    UNION {{[n \in 1..m |-> OutcomeOf(n, s[n])] : s \in [1..m -> BOOLEAN]} : m \in 0..MaxResults}

RECURSIVE Sum(_)
\* successful.reduce((sum, r) => sum + (r.fileSize || 0), 0)
Sum(rs) == IF rs = <<>> THEN 0 ELSE Head(rs).fileSize + Sum(Tail(rs))

\* what displaySummary prints: the two counts, the total size when there is a
\* success, and the lines of the failed downloads
displaySummary(rs) ==
    LET successful == SelectSeq(rs, LAMBDA r : r.success)
        failed == SelectSeq(rs, LAMBDA r : ~r.success)
    IN  [successful |-> Len(successful),
         failed     |-> Len(failed),
         totalSize  |-> IF Len(successful) > 0 THEN <<Sum(successful)>> ELSE <<>>,
         reasons    |-> IF Len(failed) > 0 /\ Len(failed) <= reasonLimit
                        THEN [n \in 1..Len(failed) |-> <<failed[n].transID, failed[n].reason>>]
                        ELSE <<>>]

InitSummary ==
    /\ OnlyFunction
    /\ \E rs \in OutcomeLists : fn = [pc |-> "results", results |-> rs]

DisplaySummary ==
    /\ fn.pc = "results"
    /\ fn' = [pc |-> "printed", results |-> fn.results, printed |-> displaySummary(fn.results)]
    /\ UNCHANGED outsideFunction

NextSummary ==
    \/ DisplaySummary

SpecSummary == InitSummary /\ [][NextSummary]_vars

----------------------------------------------------------------------------
(* Derived notions used by the properties *)

SeqIDs(s) == {s[n] : n \in 1..Len(s)}
CompletedIDs(d) == {d.completed[n].transID : n \in 1..Len(d.completed)}
FailedIDs(d) == {d.failed[n].transID : n \in 1..Len(d.failed)}
Positions == 1..Len(w)
BatchOf(n) == (n - 1) \div concurrentDownloads
InTransport(inv) == inv.pc \in {"detail", "file"}

\* main has just called setPending and is about to start the first batch
AfterSetPending == pc = "batch" /\ i = 0

\* the positions of transIDs whose outcome has been recorded in this run
Recorded == 1..Len(results)

\* the ledger as a run started now would load it from the progress file
Ledger == Load(progressFile)

----------------------------------------------------------------------------
(* C1: Resumability. A restart never invokes the Download Worker for an    *)
(* item whose download already completed (its file was written) before     *)
(* the interruption.                                                       *)
C1_NeverRedownloads ==
    [][\A n \in 1..Len(transIDs) :
         (pc = "batch" /\ pc' = "await" /\ w'[n].pc # "notStarted" /\ w[n].pc = "notStarted")
           => transIDs[n] \notin files]_vars

(* C2: Per-item ledger durability. In every reachable state in which a     *)
(* worker is still in flight, every item whose worker has settled is       *)
(* recorded, as completed or failed, in the ledger file, so that a crash   *)
(* in the middle of a batch loses only the items still in flight.          *)
C2_SettledIsRecorded ==
    (\E m \in Positions : InFlight(w[m])) =>
        \A n \in Positions :
            Settled(w[n]) =>
                transIDs[n] \in CompletedIDs(Ledger) \cup FailedIDs(Ledger)

(* C3: Concurrency bound. The number of workers in flight, and the number  *)
(* of workers inside a Transport call, never exceeds concurrentDownloads.  *)
C3_ConcurrencyBound ==
    /\ Cardinality({n \in Positions : InFlight(w[n])}) <= concurrentDownloads
    /\ Cardinality({n \in Positions : InTransport(w[n])}) <= concurrentDownloads

C3_Witness ==
    /\ concurrentDownloads = 2
    /\ Cardinality({n \in Positions : InTransport(w[n])}) = 2

(* C4: Batches run strictly sequentially. A worker of a later batch has    *)
(* started only if every worker of every earlier batch has settled,        *)
(* whether it succeeded or failed.                                         *)
C4_BatchesSequential ==
    \A n \in Positions : \A m \in Positions :
        (BatchOf(m) < BatchOf(n) /\ w[n].pc # "notStarted") => Settled(w[m])

C4_Witness ==
    \E n \in Positions : \E m \in Positions : \E l \in Positions :
        /\ BatchOf(m) < BatchOf(n) /\ BatchOf(l) < BatchOf(n)
        /\ InFlight(w[n])
        /\ w[m].pc = "returned" /\ w[m].success
        /\ w[l].pc = "returned" /\ ~w[l].success

(* C5: Single ledger writer. The ledger (in memory, and its file) changes  *)
(* only in a step of the coordinating flow taken while no Download Worker  *)
(* is in flight.                                                           *)
C5_SingleWriter ==
    [][(progressFile' # progressFile \/ (pc' \notin Stopped /\ data' # data))
         => /\ pc \in Stopped \cup {"setPending", "record"}
            /\ \A n \in Positions : ~InFlight(w[n])]_vars

C5_Witness ==
    /\ pc = "record"
    /\ concurrentDownloads = 2
    /\ Len(results) = 1
    /\ progressFile = Save(data)
    /\ CompletedIDs(Ledger) \cup FailedIDs(Ledger) # {}

(* C6: The Download Worker never raises and produces one outcome: every    *)
(* settled invocation has returned, with the ID of its item, and either    *)
(* success or a failure whose reason is the message of the error caught    *)
(* or 'Terms file not found'.                                              *)
C6_WorkerNeverRaises ==
    \A n \in Positions :
        /\ w[n].pc # "raised"
        /\ w[n].pc = "returned" =>
             /\ w[n].transID = transIDs[n]
             /\ w[n].success => w[n].reason = ""
             /\ ~w[n].success => w[n].reason \in {TermsNotFound, FetchError, WriteError}
             /\ (~w[n].success /\ w[n].reason = TermsNotFound) =>
                    /\ CacheHas(cache, DetailKey(transIDs[n]))
                    /\ ~cache[DetailKey(transIDs[n])].terms
             /\ (~w[n].success /\ w[n].reason = WriteError) => w[n].fileFetches = 1
             /\ (~w[n].success /\ w[n].fileFetches = 0 /\ w[n].reason # TermsNotFound) =>
                    w[n].reason = FetchError

C6_Witness ==
    /\ \E n \in Positions : w[n].pc = "returned" /\ w[n].reason = TermsNotFound
    /\ \E n \in Positions : w[n].pc = "returned" /\ w[n].reason = WriteError
    /\ \E n \in Positions :
          w[n].pc = "returned" /\ w[n].reason = FetchError /\ w[n].fileFetches = 0

C8_CompletedFailedDisjoint ==
    /\ CompletedIDs(Ledger) \cap FailedIDs(Ledger) = {}
    /\ CompletedIDs(data) \cap FailedIDs(data) = {}

(* C9 as stated: after setPending, the pending IDs together with the       *)
(* completed IDs are exactly the IDs of the listing.                       *)
C9_PendingUnionCompletedIsListing ==
    AfterSetPending =>
        SeqIDs(data.pending) \cup CompletedIDs(data) = SeqIDs(allTransIDs)

(* C9 as amended: after setPending, the pending IDs together with the      *)
(* completed IDs that occur in the listing are exactly the IDs of the      *)
(* listing; completed may also hold IDs of other date ranges.              *)
C9_PendingUnionCompletedOfListing ==
    AfterSetPending =>
        /\ SeqIDs(data.pending) \cup (CompletedIDs(data) \cap SeqIDs(allTransIDs))
             = SeqIDs(allTransIDs)
        /\ progressFile = Save(data)

C9_Witness ==
    /\ AfterSetPending
    /\ CompletedIDs(data) \ SeqIDs(allTransIDs) # {}
    /\ CompletedIDs(data) \cap SeqIDs(allTransIDs) # {}
    /\ FailedIDs(data) \cap SeqIDs(data.pending) # {}

(* C10: Failed-item retry across runs. An item of the listing that is in   *)
(* the failed list and not completed is pending after setPending; every    *)
(* pending item has been attempted when processDownloads returns; and an   *)
(* item whose success has been recorded is in completed and not pending.   *)
C10_FailedIsRetried ==
    /\ AfterSetPending =>
          \A id \in FailedIDs(data) \ CompletedIDs(data) :
              id \in SeqIDs(allTransIDs) => id \in SeqIDs(transIDs)
    /\ pc = "done" =>
          /\ Recorded = Positions
          /\ \A n \in Positions : w[n].pc = "returned"
    /\ \A n \in Recorded :
          results[n].success =>
              /\ results[n].transID = transIDs[n]
              /\ isCompleted(data, transIDs[n])
              /\ isCompleted(Ledger, transIDs[n])
              /\ transIDs[n] \notin SeqIDs(data.pending)
              /\ transIDs[n] \notin SeqIDs(Ledger.pending)

C10_Witness ==
    /\ pc = "done"
    /\ runs = 2
    /\ \E n \in Positions :
          /\ w[n].success
          /\ transIDs[n] \in FailedIDs(Ledger)
          /\ isCompleted(Ledger, transIDs[n])

----------------------------------------------------------------------------
(* Two runs in a row *)

\* processDownloads is running or has returned
Downloading == pc \in {"batch", "await", "record", "done"}

SuccessesThisRun == Cardinality({n \in Recorded : results[n].success})
FailuresThisRun == Cardinality({n \in Recorded : ~results[n].success})
\* the ledger entries the run loaded: those not appended by this run
CompletedAtStart == SubSeq(data.completed, 1, Len(data.completed) - SuccessesThisRun)
FailedAtStart == SubSeq(data.failed, 1, Len(data.failed) - FailuresThisRun)
CompletedIDsAtStart == {CompletedAtStart[n].transID : n \in 1..Len(CompletedAtStart)}
\* an earlier run recorded outcomes
AfterEarlierRun == Len(CompletedAtStart) + Len(FailedAtStart) > 0

\* C11 as stated: at the end of a run that follows a run over the same date
\* range, the downloaded files and the completed count are those the earlier run
\* left, and no worker ran for an item that was completed
C11_SecondRunChangesNothing ==
    (pc = "done" /\ AfterEarlierRun) =>
        /\ files = CompletedIDsAtStart
        /\ Len(data.completed) = Len(CompletedAtStart)
        /\ \A n \in Positions : transIDs[n] \notin CompletedIDsAtStart

\* C11 amended: a run that follows a run over the same date range starts no
\* worker (so no detail and no file request) for an item that was completed and
\* keeps the files of those items; at its end the downloaded files are those
\* files plus the files of the items that succeeded in this run, so files and
\* completed count are those of the earlier run only if no item succeeded now
C11_CompletedItemsUntouched ==
    Downloading =>
        /\ \A n \in Positions : transIDs[n] \notin CompletedIDsAtStart
        /\ CompletedIDsAtStart \subseteq files
        /\ pc = "done" =>
              /\ files = CompletedIDsAtStart
                            \cup {transIDs[n] : n \in {m \in Recorded : results[m].success}}
              /\ (SuccessesThisRun = 0) <=>
                    (files = CompletedIDsAtStart
                       /\ Len(data.completed) = Len(CompletedAtStart))

\* a run after an earlier one that left a completed and a failed item, in which
\* the failed item has now succeeded
C11_Witness ==
    /\ pc = "done"
    /\ Len(CompletedAtStart) > 0
    /\ Len(FailedAtStart) > 0
    /\ SuccessesThisRun > 0

----------------------------------------------------------------------------
(* fetchWithRetry *)

\* C12: a call returns the response of its first successful attempt, which is
\* the last attempt it makes: every attempt before it failed, none follows it
\* (so a call whose first retries - 1 attempts fail and whose last succeeds
\* returns that response), and while attempts are still made none has succeeded
C12_StopsAtFirstSuccess ==
    /\ req.pc = "returned" =>
          /\ req.response = req.gets
          /\ req.response \in 1..req.retries
          /\ Len(req.errors) = req.gets - 1
    /\ req.pc \in {"get", "sleep"} => req.response = 0 /\ Len(req.errors) >= req.gets - 1

\* the largest retry count, every attempt but the last failed
C12_Witness ==
    /\ req.pc = "returned"
    /\ req.retries = MaxRetries
    /\ req.response = req.retries
    /\ Len(req.errors) = req.retries - 1

\* C13 as stated: the delay slept before attempt n is retryDelay * n
C13_DelayBeforeAttemptN ==
    \A n \in 2..req.gets : req.slept[n - 1] = retryDelay * n

\* C13 amended: nothing is slept before attempt 1, and the delay slept before
\* attempt n >= 2, after attempt n - 1 failed, is retryDelay * (n - 1)
C13_DelayAfterAttemptN ==
    /\ Len(req.slept) = IF req.pc = "sleep" THEN req.gets
                        ELSE IF req.gets = 0 THEN 0 ELSE req.gets - 1
    /\ \A n \in 2..req.gets : req.slept[n - 1] = retryDelay * (n - 1)
    /\ req.pc = "sleep" => req.slept[req.gets] = retryDelay * req.gets

\* the last attempt of a call with the largest retry count is under way
C13_Witness ==
    /\ req.pc = "get"
    /\ req.retries = MaxRetries
    /\ req.gets = req.retries
    /\ Len(req.slept) = req.retries - 1

\* C14: a call throws only after exactly retries attempts that all failed, and
\* it throws the error of the last one; a call in which retries attempts failed
\* has thrown; a call that returned has a response
C14_ExhaustionRaisesLast ==
    /\ req.pc = "threw" =>
          /\ req.gets = req.retries
          /\ Len(req.errors) = req.retries
          /\ req.error = <<req.retries, req.errors[req.retries]>>
    /\ (req.pc # "none" /\ Len(req.errors) = req.retries) => req.pc = "threw"
    /\ req.pc = "returned" => req.response # 0

\* the largest retry count, the first and the last error differ
C14_Witness ==
    /\ req.pc = "threw"
    /\ req.retries = MaxRetries
    /\ req.errors[1] # req.errors[req.retries]

----------------------------------------------------------------------------
(* ProgressTracker *)

\* the progress file holds a ledger written by save()
WellFormed(file) == file.exists /\ file.json /\ IsObject(file.value)

\* C15: whatever the progress file holds, no method of the ledger throws, and
\* a ledger constructed from a file that is absent, not JSON or JSON of another
\* shape is the empty ledger
C15_LoadTolerant ==
    /\ ~call.threw
    /\ (call.name = "new" /\ ~WellFormed(progressFile)) => data = EmptyData

\* C16: when setPending, markCompleted or markFailed has returned, the
\* progress file holds exactly the in-memory ledger
C16_FileEqualsMemory ==
    (call.name \in {"setPending", "markCompleted", "markFailed"} /\ ~call.threw) =>
        /\ progressFile = Stringify(data)
        /\ Load(progressFile) = data

\* a call that changed the ledger: the file written by the call before it differs
C16_Witness ==
    /\ call.name \in {"markCompleted", "markFailed"}
    /\ ~call.threw
    /\ call.before # data
    /\ call.before # EmptyData
    /\ progressFile.value = data

RECURSIVE Without(_, _)
Without(s, x) ==
    IF s = <<>> THEN <<>>
    ELSE IF Head(s) = x THEN Without(Tail(s), x)
         ELSE <<Head(s)>> \o Without(Tail(s), x)

\* C17: markCompleted appends its argument to completed and leaves failed
\* alone, markFailed appends it to failed and leaves completed alone; both
\* remove every occurrence of the argument's ID from pending and keep the
\* other pending IDs, in order
C17_MarkFrame ==
    /\ (call.name = "markCompleted" /\ ~call.threw) =>
          /\ data.completed = Append(call.before.completed, call.result)
          /\ data.failed = call.before.failed
          /\ data.pending = Without(call.before.pending, call.result.transID)
    /\ (call.name = "markFailed" /\ ~call.threw) =>
          /\ data.failed = Append(call.before.failed, call.result)
          /\ data.completed = call.before.completed
          /\ data.pending = Without(call.before.pending, call.result.transID)

\* markCompleted for an ID that was pending twice, next to another pending ID
C17_Witness ==
    /\ call.name = "markCompleted"
    /\ ~call.threw
    /\ Len(call.before.pending) - Len(data.pending) >= 2
    /\ data.pending # <<>>
    /\ data.failed # <<>>

RECURSIVE Keep(_, _)
Keep(s, S) ==
    IF s = <<>> THEN <<>>
    ELSE IF Head(s) \in S THEN <<Head(s)>> \o Keep(Tail(s), S)
         ELSE Keep(Tail(s), S)

\* C18: setPending(ids) sets pending to ids without the IDs carried by a
\* completed entry, in the order of ids, and leaves completed and failed alone;
\* isCompleted(id) is true exactly when a completed entry carries id
C18_SetPendingFilters ==
    /\ (call.name = "setPending" /\ ~call.threw) =>
          /\ data.pending = Keep(call.ids, TrackerIDs \ CompletedIDs(call.before))
          /\ data.completed = call.before.completed
          /\ data.failed = call.before.failed
    /\ (call.name = "isCompleted" /\ ~call.threw) =>
          call.returned = <<call.id \in CompletedIDs(data)>>

\* setPending with the longest listing, of which some IDs are completed and
\* some are not, on a ledger with a failed entry
C18_Witness ==
    /\ call.name = "setPending"
    /\ ~call.threw
    /\ Len(call.ids) = MaxListing
    /\ data.pending # <<>>
    /\ Len(data.pending) < Len(call.ids)
    /\ data.failed # <<>>

----------------------------------------------------------------------------
(* Cache and listing *)

\* the worker of position n waits for its pacing delay or its detail request
FetchingDetail(n) == w[n].pc \in {"sleep", "detail"}

\* C19: no worker requests the detail page of an item while the cache has an
\* entry for that page, whatever the stored body
C19_CachedNeverFetched ==
    \A n \in Positions :
        FetchingDetail(n) => ~CacheHas(cache, DetailKey(transIDs[n]))

\* C20: a run that ends at the listing step leaves cache, progress file and
\* downloaded files as they were and has no worker; and a run gets past the
\* listing step only with the listing page in the cache and its IDs as
\* allTransIDs, so after a failed listing request nothing else happens
C20_ListingFailureFatal ==
    [][/\ (pc = "listing" /\ pc' = "exit1") =>
              /\ UNCHANGED <<cache, progressFile, files>>
              /\ w' = <<>>
       /\ pc' \notin Stopped \cup {"listing"} =>
              /\ ~NoHtml(cache', ListingKey(range'))
              /\ allTransIDs' = ParseListing(cache'[ListingKey(range')])]_vars

\* runs were started and all ended at the listing step: nothing is cached,
\* there is no progress file
C20_Witness ==
    /\ runs = MaxRuns
    /\ pc = "exit1"
    /\ cache = <<>>
    /\ ~progressFile.exists
    /\ files = {}

----------------------------------------------------------------------------
(* Listings *)

\* the listing step got its page: from the cache, or by a request that stored it
ListingObtained ==
    /\ pc = "listing"
    /\ \/ ~NoHtml(cache, ListingKey(range))
       \/ ~CacheHas(cache, ListingKey(range)) /\ CacheHas(cache', ListingKey(range))

\* C21: when the listing step gets a page that yields no item ID, the run
\* exits with status 0 and no error, no worker is started and nothing but the
\* cache is written
C21_EmptyListingExitsCleanly ==
    [][(ListingObtained /\ ParseListing(cache'[ListingKey(range)]) = <<>>) =>
          /\ pc' = "exit0"
          /\ w' = <<>>
          /\ UNCHANGED <<progressFile, files>>]_vars

\* a run ended with status 0 on a cached listing that has rows but no item ID
C21_Witness ==
    /\ pc = "exit0"
    /\ CacheHas(cache, ListingKey("r1"))
    /\ cache[ListingKey("r1")].rows # <<>>
    /\ ParseListing(cache[ListingKey("r1")]) = <<>>
    /\ ~progressFile.exists

\* C24: the sequence handed to processDownloads holds no item ID twice, so
\* no two workers in flight at the same time work on the same item
C24_NoIDScheduledTwice ==
    /\ \A m, n \in 1..Len(transIDs) : m # n => transIDs[m] # transIDs[n]
    /\ \A m, n \in Positions :
          (m # n /\ InFlight(w[m]) /\ InFlight(w[n])) => transIDs[m] # transIDs[n]

\* C25: when processDownloads returns, every entry of transIDs was attempted
\* by the one invocation at its position, which has returned, and results
\* holds the outcome of that invocation at the same position and nothing else
C25_CompleteOutcomeList ==
    pc = "done" =>
        /\ Len(results) = Len(transIDs)
        /\ Len(w) = Len(transIDs)
        /\ \A n \in 1..Len(transIDs) :
              /\ w[n].pc = "returned"
              /\ w[n].transID = transIDs[n]
              /\ results[n] = Outcome(w[n])

\* processDownloads has returned; the first item failed and a later one
\* succeeded
C25_Witness ==
    /\ pc = "done"
    /\ Len(transIDs) >= 3
    /\ ~results[1].success
    /\ \E n \in 2..Len(results) : results[n].success

\* C22: no step removes a key from the cache or changes the body stored
\* under a key
C22_CacheMonotone ==
    [][\A key \in DOMAIN cache :
          /\ key \in DOMAIN cache'
          /\ cache'[key] = cache[key]]_vars

----------------------------------------------------------------------------
(* CacheManager *)

\* a key with every character that is not a letter or digit replaced by '_'
RECURSIVE Sanitized(_)
Sanitized(key) ==
    IF key = <<>> THEN <<>>
    ELSE <<IF IsAlnum(Head(key)) THEN Head(key) ELSE "_">> \o Sanitized(Tail(key))

\* C23: after set(key, body), has(key) is true and get(key) returns body;
\* has and get answer from the same entry for two keys exactly when the keys
\* are equal after sanitizing, so a set changes what get returns for exactly
\* those keys, and has and get change nothing; get returns null exactly for
\* the keys for which has is false
C23_CacheRoundTrip ==
    /\ probe.op = "set" =>
          /\ has(cache, probe.key)
          /\ get(cache, probe.key) = probe.body
          /\ \A key \in Keys :
                IF Sanitized(key) = Sanitized(probe.key)
                THEN get(cache, key) = probe.body
                ELSE get(cache, key) = get(probe.before, key)
    /\ probe.op \in {"get", "has"} => cache = probe.before
    /\ probe.op = "get" =>
          probe.returned = IF \E key \in Keys : /\ Sanitized(key) = Sanitized(probe.key)
                                                  /\ has(cache, key)
                           THEN get(cache, probe.key) ELSE null
    /\ probe.op = "has" => probe.returned.has = (get(cache, probe.key) # null)
    /\ probe.op # "none" =>
          \A key \in Keys :
              (getCachePath(key) = getCachePath(probe.key))
                  <=> (Sanitized(key) = Sanitized(probe.key))

\* a set with the key "_" has replaced the body of the entry that an earlier run
\* stored with the key "/"
C23_Witness ==
    /\ probe.op = "set"
    /\ probe.key = <<"_">>
    /\ probe.body = DetailBody(TRUE)
    /\ probe.before = set(<<>>, <<"/">>, EmptyBody)
    /\ get(cache, <<"/">>) = DetailBody(TRUE)

(* downloadWarrant: the name and the place of the terms file *)

NameChars == {"a", "/", "..", ".progress.json"}
IsName(s) == s # <<>> /\ \A n \in 1..Len(s) : s[n] \in NameChars
Named == dl.pc \in {"named", "written", "failed"}
Fallback == Sanitized(dl.symbol) \o <<"_Terms_", dl.transID, ".pdf">>

C26_WitnessHeader ==
    /\ dl.pc = "written"
    /\ dl.contentDisposition.value = <<"a", ";", "filename", "=", "a">>
    /\ dl.filename = <<"a">>

\* C27: every file written is directly in the download directory and is not
\* the progress file
C27_WrittenInDestinationDir ==
    dl.pc = "written" =>
        /\ Len(dl.filepath.segments) = Len(downloadDir) + 1
        /\ SubSeq(dl.filepath.segments, 1, Len(downloadDir)) = downloadDir
        /\ dl.filepath.segments # ledgerPath

(* The link generator: the identifier filter *)

\* the rows of a sequence whose symbol is in a set, in the order of the sequence
RECURSIVE RowsWithSymbolIn(_, _)
RowsWithSymbolIn(rows, allowList) ==
    IF rows = <<>> THEN <<>>
    ELSE (IF Head(rows).symbol \in allowList THEN <<Head(rows)>> ELSE <<>>)
             \o RowsWithSymbolIn(Tail(rows), allowList)

C29_SaveFailureFatal ==
    [][/\ (SetPendingSaveFails \/ RecordResultSaveFails) => (pc' = "exit1" /\ w' = <<>>)
       /\ pc' \in {"batch", "await", "record", "done"}
            => progressFile' = Stringify(data')]_vars

\* the progress file could not be written after a terms file had been, and
\* the run has ended with status 1
C29_Witness ==
    /\ pc = "exit1"
    /\ progressFile = NotJson
    /\ files # {}

(* Interrupts *)

\* C30: when a run is killed inside processDownloads, every item whose worker
\* is in flight at that moment is in neither the completed nor the failed list
\* of the ledger in the progress file, and is in its pending list, from which
\* the next run starts
C30_InFlightUnclassified ==
    [][(pc \in {"batch", "await", "record"} /\ pc' = "killed") =>
         \A n \in 1..Len(w) :
            InFlight(w[n]) =>
               LET d == Load(progressFile') IN
               /\ transIDs[n] \notin CompletedIDs(d)
               /\ transIDs[n] \notin FailedIDs(d)
               /\ transIDs[n] \in SeqIDs(d.pending)]_vars

(* Pacing *)

\* the worker uses the body the cache returned
ServedFromCache == dl.html # null /\ ~dl.html.empty

\* C31: a worker whose detail page is served from the cache does not sleep
\* and makes no request for it; any other worker sleeps requestDelay once,
\* before the first attempt of its detail request, and not again whatever the
\* number of attempts: the sleeps between the attempts are the backoff of
\* fetchWithRetry
C31_PacingPerItem ==
    dl.pc # "none" =>
        /\ ServedFromCache => dl.sleeps = <<>> /\ req = NoRequest
        /\ (~ServedFromCache /\ dl.pc # "start") => dl.sleeps = <<dl.requestDelay>>
        /\ req.gets >= 1 => dl.sleeps = <<dl.requestDelay>>
        /\ Len(req.slept) = IF req.pc = "sleep" THEN req.gets
                            ELSE IF req.gets = 0 THEN 0 ELSE req.gets - 1
        /\ \A n \in 1..Len(req.slept) : req.slept[n] = retryDelay * n

\* a detail request that took every attempt, after one pacing sleep
C31_Witness ==
    /\ dl.pc = "terms"
    /\ dl.html = null
    /\ req.gets = retryAttempts
    /\ req.gets > 1
    /\ dl.sleeps = <<500>>

(* Listing extraction *)

\* the item IDs of the rows whose link is TransID= followed by digits, in row
\* order; the link of a row is the first link of its last cell
RECURSIVE LinkedIDs(_)
LinkedIDs(table) ==
    IF table = <<>> THEN <<>>
    ELSE (IF Head(table) # <<>> /\ Head(table)[1] \in {"TransID=1", "TransID=2"}
          THEN <<IF Head(table)[1] = "TransID=1" THEN "1" ELSE "2">>
          ELSE <<>>) \o LinkedIDs(Tail(table))

\* C32: the extraction returns, in row order, the item ID of every row whose
\* last-cell link contains TransID=<digits>, one entry per such row, skips
\* every other row and does not throw
C32_ListingExtraction ==
    fn.pc = "extracted" =>
        /\ ~fn.threw
        /\ fn.transIDs = LinkedIDs(fn.table)

\* a row with a link, a row without any, and a row whose first link has no
\* item ID
C32_Witness ==
    /\ fn.pc = "extracted"
    /\ fn.table = <<<<"TransID=2">>, <<>>, <<"TransID=", "TransID=1">>>>
    /\ fn.transIDs = <<"2">>

(* Recording order *)

\* C33: outcomes are recorded batch by batch and, within a batch, in the order
\* of the pending sequence: the n-th outcome recorded is the outcome of the
\* worker of the n-th pending item; while a batch is started or awaited, the
\* outcomes recorded are exactly those of the earlier batches; and the entries
\* this run added to the completed and to the failed list of the ledger are the
\* successes and the failures among the recorded outcomes, in that order
C33_RecordingOrder ==
    Downloading =>
        /\ \A n \in Recorded :
              /\ results[n] = Outcome(w[n])
              /\ results[n].transID = transIDs[n]
        /\ pc \in {"batch", "await"} => Len(results) = Min(i, Len(transIDs))
        /\ pc = "record" => Len(results) = k - 1 /\ BatchOf(k) = i \div concurrentDownloads
        /\ SubSeq(data.completed, Len(CompletedAtStart) + 1, Len(data.completed))
             = SelectSeq(results, LAMBDA r : r.success)
        /\ SubSeq(data.failed, Len(FailedAtStart) + 1, Len(data.failed))
             = SelectSeq(results, LAMBDA r : ~r.success)
        /\ progressFile = Stringify(data)

\* two batches were recorded, with two failures and a success among them
C33_Witness ==
    /\ pc = "done"
    /\ concurrentDownloads = 2
    /\ Len(results) = 3
    /\ ~results[1].success /\ results[2].success /\ ~results[3].success

(* Final report *)

\* C34: the success count and the failure count of the report add up to the
\* number of outcomes; whenever there is a failure some failure reasons are
\* printed, and never more than the limit
C34_FinalReport ==
    fn.pc = "printed" =>
        /\ fn.printed.successful + fn.printed.failed = Len(fn.results)
        /\ fn.printed.failed >= 1 => fn.printed.reasons # <<>>
        /\ Len(fn.printed.reasons) <= reasonLimit

(* Scheduler termination *)

\* C35: once processDownloads is called it returns, and when it returns the
\* loop has run ceil(n / c) batches, n the number of pending items and c
\* concurrentDownloads
C35_SchedulerTerminates ==
    /\ AfterSetPending ~> pc = "done"
    /\ [](pc = "done" =>
            /\ i % concurrentDownloads = 0
            /\ i \div concurrentDownloads
                 = (Len(transIDs) + concurrentDownloads - 1) \div concurrentDownloads)

\* processDownloads has returned after two batches, the second of them short
C35_Witness ==
    /\ pc = "done"
    /\ Len(transIDs) = 3
    /\ concurrentDownloads = 2
    /\ i = 4

(* The ledger after a run *)

\* C36: when processDownloads has returned, the pending list of the ledger,
\* in memory and in the progress file, is empty, and every item that was
\* pending when it was called has an entry in completed or in failed
C36_NothingLeftPending ==
    pc = "done" =>
        /\ data.pending = <<>>
        /\ Ledger.pending = <<>>
        /\ \A n \in 1..Len(transIDs) :
              /\ results[n].success => transIDs[n] \in CompletedIDs(Ledger)
              /\ ~results[n].success => transIDs[n] \in FailedIDs(Ledger)

\* processDownloads has returned with a success and a failure
C36_Witness ==
    /\ pc = "done"
    /\ Len(transIDs) >= 2
    /\ \E n \in 1..Len(results) : results[n].success
    /\ \E n \in 1..Len(results) : ~results[n].success
    /\ Ledger.pending = <<>>

(* Items without a terms file *)

\* the ledger in the progress file has the item as failed for want of a terms
\* file
FailedForTerms(transID) ==
    \E m \in 1..Len(Ledger.failed) :
        /\ Ledger.failed[m].transID = transID
        /\ Ledger.failed[m].reason = TermsNotFound

\* C37: a worker started for an item that has failed with 'Terms file not
\* found' before returns that failure again at once, without a pacing sleep
\* and without a request for the detail page or the file
C37_TermsFailureRepeats ==
    [][\A n \in 1..Len(transIDs) :
          (/\ pc = "batch" /\ pc' = "await"
           /\ w[n].pc = "notStarted" /\ w'[n].pc # "notStarted"
           /\ FailedForTerms(transIDs[n]))
          => w'[n] = Failure(NotStarted, transIDs[n], TermsNotFound)]_vars

-----------------------------------------------------------------------------
(* The column matcher (src/column-matcher.js)                              *)

\* the largest number of rows of the sheet
MaxSheet == 2

\* the cells of a sheet: text and numbers
Text(text) == [text |-> text]
Number(number) == [number |-> number]
\* the empty cell (defval) and the '' the matcher writes
Blank == Text("")
Cells == {Blank, Text(" X "), Text("X"), Text("7"), Number(7)}
\* String(cell)
String(cell) == IF "number" \in DOMAIN cell THEN ToString(cell.number) ELSE cell.text

\* the columns of the sheet, and the names the user may type
Columns == {"A", "B"}
ColumnNames == Columns \cup {"C"}
\* the rows of sheet_to_json: one object per row, every column present
SheetRows == [Columns -> Cells]
Sheets == UNION {[1..n -> SheetRows] : n \in 0..MaxSheet}

\* the result of Array.prototype.find when nothing is found
undefined == 0

\* bIndex.get(aVal) || []: the rows whose trimmed column B is aVal, in order
candidates(rows, colB, aVal) ==
    SelectSeq([n \in 1..Len(rows) |-> n],
              LAMBDA ci : trim(String(rows[ci][colB])) = aVal)

\* candidates.find(ci => true)
findFirst(cands, usedBRows) ==
    IF cands = <<>> THEN undefined ELSE Head(cands)

\* candidates.find(ci => !usedBRows.has(ci))
find(cands, usedBRows) ==
    LET unused == SelectSeq(cands, LAMBDA ci : ci \notin usedBRows)
    IN  IF unused = <<>> THEN undefined ELSE Head(unused)

\* the loop over the rows of column A, from row n on
RECURSIVE alignRows(_, _, _, _, _, _)
alignRows(rows, colA, colB, n, matched, usedBRows) ==
    IF n > Len(rows) THEN [matched |-> matched, usedBRows |-> usedBRows]
    ELSE LET aVal == trim(String(rows[n][colA]))
             candidateIdx == find(candidates(rows, colB, aVal), usedBRows)
         IN  IF candidateIdx # undefined
             THEN alignRows(rows, colA, colB, n + 1,
                            Append(matched, [rows[n] EXCEPT ![colB] = rows[candidateIdx][colB]]),
                            usedBRows \cup {candidateIdx})
             ELSE alignRows(rows, colA, colB, n + 1,
                            Append(matched, [rows[n] EXCEPT ![colB] = Blank]),
                            usedBRows)

\* the loop over the rows of column B that were not used
leftovers(rows, colA, usedBRows) ==
    LET unusedIdx == SelectSeq([n \in 1..Len(rows) |-> n], LAMBDA n : n \notin usedBRows)
    IN  [m \in 1..Len(unusedIdx) |-> [rows[unusedIdx[m]] EXCEPT ![colA] = Blank]]

\* resultRows of runColumnMatcher
resultRows(rows, colA, colB) ==
    LET aligned == alignRows(rows, colA, colB, 1, <<>>, {})
    IN  aligned.matched \o leftovers(rows, colA, aligned.usedBRows)

InitMatcher ==
    /\ OnlyFunction
    /\ \E rows \in Sheets, colA \in ColumnNames, colB \in ColumnNames :
          fn = [pc |-> "sheet", rows |-> rows, colA |-> colA, colB |-> colB]

\* the sheet is empty: process.exit(0)
EmptySheet ==
    /\ fn.pc = "sheet"
    /\ fn.rows = <<>>
    /\ fn' = [fn EXCEPT !.pc = "exit0"]
    /\ UNCHANGED outsideFunction

\* a column is not in the sheet: process.exit(1)
ColumnNotFound ==
    /\ fn.pc = "sheet"
    /\ fn.rows # <<>>
    /\ \E col \in {fn.colA, fn.colB} : col \notin DOMAIN fn.rows[1]
    /\ fn' = [fn EXCEPT !.pc = "exit1"]
    /\ UNCHANGED outsideFunction

\* the rows are aligned and handed to json_to_sheet
MatchColumns ==
    /\ fn.pc = "sheet"
    /\ fn.rows # <<>>
    /\ \A col \in {fn.colA, fn.colB} : col \in DOMAIN fn.rows[1]
    /\ fn' = [pc |-> "written", rows |-> fn.rows, colA |-> fn.colA, colB |-> fn.colB,
              resultRows |-> resultRows(fn.rows, fn.colA, fn.colB)]
    /\ UNCHANGED outsideFunction

NextMatcher ==
    \/ EmptySheet
    \/ ColumnNotFound
    \/ MatchColumns

SpecMatcher == InitMatcher /\ [][NextMatcher]_vars

\* the number of rows among rows[from..to] whose column col holds the cell
Occurrences(rows, from, to, col, cell) ==
    Cardinality({n \in from..to : rows[n][col] = cell})

\* C38: for a sheet of N rows, the first N rows written keep column A in its
\* order, each of them has column B empty or equal after trimming to its
\* column A, no value of column B is used more often than the sheet has it,
\* every value of column B that was not used is in a row below them exactly
\* as often as it was left, and so the non-empty values of column B of the
\* output are those of the input, each as often
C38_MatcherConservation ==
    fn.pc = "written" =>
        LET N == Len(fn.rows)
            out == fn.resultRows
        IN  /\ Len(out) >= N
            /\ \A n \in 1..N :
                  /\ out[n][fn.colA] = fn.rows[n][fn.colA]
                  /\ \/ out[n][fn.colB] = Blank
                     \/ trim(String(out[n][fn.colB])) = trim(String(out[n][fn.colA]))
            /\ \A cell \in Cells \ {Blank} :
                  /\ Occurrences(out, 1, N, fn.colB, cell)
                        <= Occurrences(fn.rows, 1, N, fn.colB, cell)
                  /\ Occurrences(out, N + 1, Len(out), fn.colB, cell)
                        = Occurrences(fn.rows, 1, N, fn.colB, cell)
                          - Occurrences(out, 1, N, fn.colB, cell)
                  /\ Occurrences(out, 1, Len(out), fn.colB, cell)
                        = Occurrences(fn.rows, 1, N, fn.colB, cell)

\* two rows of column A ask for the same value, column B has it once with
\* blanks around it, and another value of column B matches nothing
C38_Witness ==
    /\ fn.pc = "written"
    /\ fn.colA = "A" /\ fn.colB = "B"
    /\ Len(fn.rows) = 2
    /\ fn.rows[1].A = Text("X") /\ fn.rows[2].A = Text("X")
    /\ fn.rows[1].B = Number(7) /\ fn.rows[2].B = Text(" X ")
    /\ Len(fn.resultRows) = 3
    /\ fn.resultRows[1].B = Text(" X ")
    /\ fn.resultRows[2].B = Blank
    /\ fn.resultRows[3] = [A |-> Blank, B |-> Number(7)]

====
